---- MODULE Spec2Model ----
(***************************************************************************)
(* A model of scorch: the disk-usage tree (model.rs), the background       *)
(* scanner and its progress channel (scanner.rs), the sunburst layout      *)
(* (sunburst.rs), the navigation state (app.rs), deletion (actions.rs) and *)
(* the GTK handlers that tie them together (ui.rs).                        *)
(*                                                                         *)
(* A path is the sequence of its components: "/" is <<>>, "/home/a" is     *)
(* <<"home", "a">>.  An Option is a sequence of length at most one: None   *)
(* is <<>>, Some(x) is <<x>>.  An angle is an exact rational number of     *)
(* turns (one turn is 2*PI radians), kept as a reduced fraction [n, d].    *)
(***************************************************************************)
EXTENDS Integers, Sequences, FiniteSets, TLC

VARIABLES
    fs,          \* the filesystem on disk: the node of "/"
    state,       \* app.rs AppState
    dialog,      \* the open delete dialog: Option of the path it was given
    up_btn,      \* sensitivity of the "Escape" (up) button
    crumbs,      \* the paths of the breadcrumb buttons on screen
    thread,      \* the scanner thread: its position in scan_recursive
    poller,      \* whether the 50 ms poll timeout is installed
    chan,        \* the mpsc channel: messages sent and not yet received
    sent,        \* history: every message the current scan has sent
    rcvd,        \* history: every message the poll loop has received
    built,       \* history: the entry as build_entry returned it, unsorted
    last,        \* history: the step that led to this state, with its outcome
    done         \* history: how many scans were started and deletions confirmed

vars ==
    <<fs, state, dialog, up_btn, crumbs, thread, poller, chan, sent, rcvd, built, last,
      done>>

----------------------------------------------------------------------------
(* Bounds of the model and constants of the program *)

\* The large disks of the scanner model hold ItemCountEvery - 4 + fill
\* filler entries in their root directory, for fill in 0..MaxFill.
MaxFill == 2
\* A run of the model starts at most MaxScans scans and confirms at most
\* MaxDeletes deletions.
MaxScans == 2
\* build_segments is called with a maximum depth in 0..MaxLayoutDepth.
MaxLayoutDepth == 6
MaxDeletes == 2
\* sunburst.rs: MAX_DEPTH
MAX_DEPTH == 5
\* scanner.rs: the cadence of ItemCount, `*count % 100 == 0`
ItemCountEvery == 100

----------------------------------------------------------------------------
(* Options and paths (std::path::PathBuf) *)

None == <<>>
Some(x) == <<x>>
is_some(o) == o # <<>>
unwrap(o) == o[1]

\* Path::parent: None for "/", else the path without its last component.
parent(path) ==
    IF path = <<>> THEN None ELSE Some(SubSeq(path, 1, Len(path) - 1))

\* Path::join with one component.
join(path, name) == Append(path, name)

\* `path_str.starts_with(&format!("{}/", p))` for absolute paths: p is a
\* strict prefix of path, component by component.
starts_with_dir(path, p) ==
    /\ Len(path) > Len(p)
    /\ SubSeq(path, 1, Len(p)) = p

\* scanner.rs VIRTUAL_FS_PATHS
VIRTUAL_FS_PATHS == {<<"proc">>, <<"sys">>, <<"dev">>, <<"run">>, <<"snap">>}

\* scanner.rs is_virtual_fs
is_virtual_fs(path) ==
    \E vfs \in VIRTUAL_FS_PATHS : path = vfs \/ starts_with_dir(path, vfs)

\* model.rs PROTECTED_PATHS
PROTECTED_PATHS ==
    { <<>>, <<"usr">>, <<"etc">>, <<"bin">>, <<"sbin">>, <<"lib">>, <<"lib64">>,
      <<"boot">>, <<"dev">>, <<"proc">>, <<"sys">>, <<"run">>, <<"var">>, <<"root">> }

\* model.rs is_protected_path
is_protected_path(path) == \E p \in PROTECTED_PATHS : path = p

----------------------------------------------------------------------------
(* The filesystem.  A node is [name, kind, size, access, rm, children]:    *)
(*   kind    "file", "dir" or "symlink";                                   *)
(*   access  "ok"; "nometa": its metadata cannot be read; "noread": a      *)
(*           directory whose contents cannot be read; "direrr": the        *)
(*           directory iterator of its parent yields Err for it;           *)
(*   rm      what removing it does: "ok", "denied" (PermissionDenied) or   *)
(*           "error" (any other io::Error).                                *)
(* The children of a directory are in the order read_dir yields them.      *)

FsFile(name, size) ==
    [name |-> name, kind |-> "file", size |-> size, access |-> "ok",
     rm |-> "ok", children |-> <<>>]
FsDir(name, children) ==
    [name |-> name, kind |-> "dir", size |-> 0, access |-> "ok",
     rm |-> "ok", children |-> children]
FsLink(name) ==
    [name |-> name, kind |-> "symlink", size |-> 0, access |-> "ok",
     rm |-> "ok", children |-> <<>>]
WithAccess(node, a) == [node EXCEPT !.access = a]
WithRm(node, r) == [node EXCEPT !.rm = r]

\* The positions of the children of `node` named `name` (at most one).
ChildIndex(node, name) ==
    {i \in DOMAIN node.children : node.children[i].name = name}

\* The node at `path` below `node`, as an Option.
RECURSIVE fs_lookup(_, _)
fs_lookup(node, path) ==
    IF path = <<>> THEN Some(node)
    ELSE LET idx == ChildIndex(node, Head(path)) IN
         IF idx = {} THEN None
         ELSE fs_lookup(node.children[CHOOSE i \in idx : TRUE], Tail(path))

\* A sequence without its i-th element.
RemoveAt(seq, i) == SubSeq(seq, 1, i - 1) \o SubSeq(seq, i + 1, Len(seq))

\* The filesystem with the node at `path` replaced by the Option `repl`
\* (None unlinks it).
RECURSIVE fs_replace(_, _, _)
fs_replace(node, path, repl) ==
    IF path = <<>> THEN repl
    ELSE LET idx == ChildIndex(node, Head(path)) IN
         IF idx = {} THEN Some(node)
         ELSE LET i == CHOOSE j \in idx : TRUE
                  sub == fs_replace(node.children[i], Tail(path), repl)
              IN  Some([node EXCEPT !.children =
                          IF is_some(sub)
                          THEN [node.children EXCEPT ![i] = unwrap(sub)]
                          ELSE RemoveAt(node.children, i)])

\* std::fs::remove_file on a node: [res, node], node the Option left on disk.
remove_file(node) ==
    IF node.rm = "ok" THEN [res |-> "ok", node |-> None]
    ELSE [res |-> node.rm, node |-> Some(node)]

\* std::fs::remove_dir_all on a directory node: its entries are removed in
\* order, the first failure ends the call (what was removed stays removed),
\* and the emptied directory itself is removed last.
RECURSIVE remove_dir_all(_)
RECURSIVE remove_entries(_)
remove_entries(items) ==
    IF items = <<>> THEN [res |-> "ok", items |-> <<>>]
    ELSE LET one == IF Head(items).kind = "dir"
                    THEN remove_dir_all(Head(items))
                    ELSE remove_file(Head(items))
         IN  IF one.res # "ok"
             THEN [res |-> one.res, items |-> one.node \o Tail(items)]
             ELSE remove_entries(Tail(items))
remove_dir_all(node) ==
    IF node.access = "noread" THEN [res |-> "denied", node |-> Some(node)]
    ELSE LET inner == remove_entries(node.children)
             emptied == [node EXCEPT !.children = inner.items]
         IN  IF inner.res # "ok" THEN [res |-> inner.res, node |-> Some(emptied)]
             ELSE IF node.rm # "ok" THEN [res |-> node.rm, node |-> Some(emptied)]
             ELSE [res |-> "ok", node |-> None]

\* Path::exists: the metadata of the path can be read.
exists(root, path) ==
    LET n == fs_lookup(root, path) IN is_some(n) /\ unwrap(n).access # "nometa"

\* Path::is_dir
is_dir(root, path) ==
    LET n == fs_lookup(root, path) IN
    is_some(n) /\ unwrap(n).access # "nometa" /\ unwrap(n).kind = "dir"

\* actions.rs delete_entry: [result, fs], the DeleteResult and the filesystem
\* the call leaves behind.
delete_entry_unprotected(root, path) ==
    IF ~exists(root, path) THEN [result |-> "NotFound", fs |-> root]
    ELSE LET node == unwrap(fs_lookup(root, path))
             r == IF is_dir(root, path) THEN remove_dir_all(node)
                  ELSE remove_file(node)
             after == unwrap(fs_replace(root, path, r.node))
         IN  IF r.res = "ok" THEN [result |-> "Success", fs |-> after]
             ELSE IF r.res = "denied"
                  THEN [result |-> "PermissionDenied", fs |-> after]
                  ELSE [result |-> "Error", fs |-> after]
\* delete_entry looking for the path before it looks at the protected set.
delete_entry_exists_first(root, path) ==
    IF ~exists(root, path) THEN [result |-> "NotFound", fs |-> root]
    ELSE IF is_protected_path(path) THEN [result |-> "ProtectedPath", fs |-> root]
    ELSE delete_entry_unprotected(root, path)
delete_entry(root, path) ==
    IF is_protected_path(path) THEN [result |-> "ProtectedPath", fs |-> root]
    ELSE delete_entry_unprotected(root, path)

----------------------------------------------------------------------------
(* model.rs DirEntry: [path, size, is_file, children].  `name` and          *)
(* `file_type` are functions of `path` alone and only label and colour the *)
(* chart; they are not carried.                                            *)

\* DirEntry::new_dir
new_dir(path) == [path |-> path, size |-> 0, is_file |-> FALSE, children |-> <<>>]
\* DirEntry::new_file
new_file(path, size) ==
    [path |-> path, size |-> size, is_file |-> TRUE, children |-> <<>>]

\* The sum of f over a sequence.
RECURSIVE SumSeq(_)
SumSeq(seq) == IF seq = <<>> THEN 0 ELSE Head(seq) + SumSeq(Tail(seq))

\* DirEntry::total_size
RECURSIVE total_size(_)
total_size(e) ==
    IF e.is_file THEN e.size
    ELSE SumSeq([i \in DOMAIN e.children |-> total_size(e.children[i])])

\* DirEntry::item_count
RECURSIVE item_count(_)
item_count(e) ==
    1 + SumSeq([i \in DOMAIN e.children |-> item_count(e.children[i])])

\* `slice::sort_by(|a, b| b.total_size().cmp(&a.total_size()))`: a stable sort,
\* so an element goes behind every element that does not compare Greater.
\* insert_by_size with an unstable comparison: an element goes ahead of the
\* elements of its own size.
RECURSIVE insert_before_equal(_, _)
insert_before_equal(sorted, x) ==
    IF sorted = <<>> THEN <<x>>
    ELSE IF total_size(Head(sorted)) > total_size(x)
         THEN <<Head(sorted)>> \o insert_before_equal(Tail(sorted), x)
         ELSE <<x>> \o sorted
RECURSIVE insert_by_size(_, _)
insert_by_size(sorted, x) ==
    IF sorted = <<>> THEN <<x>>
    ELSE IF total_size(Head(sorted)) >= total_size(x)
         THEN <<Head(sorted)>> \o insert_by_size(Tail(sorted), x)
         ELSE <<x>> \o sorted
RECURSIVE sort_by(_)
sort_by(seq) ==
    IF seq = <<>> THEN <<>>
    ELSE insert_by_size(sort_by(SubSeq(seq, 1, Len(seq) - 1)), seq[Len(seq)])

\* The entry as the scanner built it, its children in discovery order.
sort_not_applied(e) == e

\* DirEntry::sort_by_size
RECURSIVE sort_by_size(_)
sort_by_size(e) ==
    LET sorted == sort_by(e.children) IN
    [e EXCEPT !.children = [i \in DOMAIN sorted |-> sort_by_size(sorted[i])]]

\* DirEntry::find_by_path: the first match in depth-first order, as an Option.
RECURSIVE find_by_path(_, _)
RECURSIVE find_in_children(_, _)
find_in_children(children, target) ==
    IF children = <<>> THEN None
    ELSE LET found == find_by_path(Head(children), target) IN
         IF is_some(found) THEN found
         ELSE find_in_children(Tail(children), target)
find_by_path(e, target) ==
    IF e.path = target THEN Some(e) ELSE find_in_children(e.children, target)

----------------------------------------------------------------------------
(* scanner.rs: the walk below the scan root *)

\* build_entry_quiet on the node `node` found at `path`, and the loop over its
\* directory entries: [ok, entry, count].  `count` is the shared item counter.
RECURSIVE build_entry_quiet(_, _, _)
RECURSIVE quiet_items(_, _, _, _)
quiet_items(items, dir, entry, count) ==
    IF items = <<>> THEN [entry |-> entry, count |-> count]
    ELSE LET item == Head(items)
             item_path == join(dir, item.name)
         IN  IF item.access = "direrr"
             THEN quiet_items(Tail(items), dir, entry, count)
             ELSE IF item.access = "nometa" \/ item.kind = "symlink"
             THEN quiet_items(Tail(items), dir, entry, count + 1)
             ELSE IF item.kind = "file"
             THEN quiet_items(Tail(items), dir,
                      [entry EXCEPT !.children =
                          Append(@, new_file(item_path, item.size))],
                      count + 1)
             ELSE IF is_virtual_fs(item_path)
             THEN quiet_items(Tail(items), dir, entry, count + 1)
             ELSE LET sub == build_entry_quiet(item, item_path, count + 1) IN
                  quiet_items(Tail(items), dir,
                      IF sub.ok
                      THEN [entry EXCEPT !.children = Append(@, sub.entry)]
                      ELSE entry,
                      sub.count)
build_entry_quiet(node, path, count) ==
    IF is_virtual_fs(path)
    THEN [ok |-> TRUE, entry |-> new_dir(path), count |-> count]
    ELSE IF node.access = "nometa"
    THEN [ok |-> FALSE, entry |-> new_dir(path), count |-> count]
    ELSE IF node.kind = "file"
    THEN [ok |-> TRUE, entry |-> new_file(path, node.size), count |-> count]
    ELSE IF node.access = "noread" \/ node.kind # "dir"
    THEN [ok |-> TRUE, entry |-> new_dir(path), count |-> count]
    ELSE LET r == quiet_items(node.children, path, new_dir(path), count) IN
         [ok |-> TRUE,
          entry |-> [r.entry EXCEPT !.size =
              SumSeq([i \in DOMAIN r.entry.children |->
                         total_size(r.entry.children[i])])],
          count |-> r.count]

\* ScanProgress
Scanning(path) == [type |-> "Scanning", path |-> path, n |-> 0, entry |-> None]
ItemCount(n) == [type |-> "ItemCount", path |-> <<>>, n |-> n, entry |-> None]
Complete(entry) ==
    [type |-> "Complete", path |-> <<>>, n |-> 0, entry |-> Some(entry)]
\* An Error that is reported as progress, not as the end of the scan.
error_as_progress(path) == Scanning(path)
Error(path) == [type |-> "Error", path |-> path, n |-> 0, entry |-> None]
is_terminal(msg) == msg.type \in {"Complete", "Error"}

\* item_count_update reporting every item.
item_count_always(count) == <<ItemCount(count)>>

\* `if *count % 100 == 0 { tx.send(ItemCount(*count)) }`: the messages sent.
item_count_update(count) ==
    IF count % ItemCountEvery = 0 THEN <<ItemCount(count)>> ELSE <<>>

----------------------------------------------------------------------------
(* sunburst.rs: the layout.  Angles are exact fractions of a turn. *)

RECURSIVE GCD(_, _)
GCD(a, b) == IF b = 0 THEN a ELSE GCD(b, a % b)
Frac(n, d) ==
    IF n = 0 THEN [n |-> 0, d |-> 1]
    ELSE LET g == GCD(n, d) IN [n |-> n \div g, d |-> d \div g]
FAdd(a, b) == Frac(a.n * b.d + b.n * a.d, a.d * b.d)
FSub(a, b) == Frac(a.n * b.d - b.n * a.d, a.d * b.d)
FMul(a, b) == Frac(a.n * b.n, a.d * b.d)
FLess(a, b) == a.n * b.d < b.n * a.d
FLeq(a, b) == a.n * b.d <= b.n * a.d

\* 0.0 and 2.0 * PI
ZERO_ANGLE == [n |-> 0, d |-> 1]
FULL_CIRCLE == [n |-> 1, d |-> 1]
\* sunburst.rs MIN_ANGLE: 0.01 radians is 0.01 / (2 * PI) of a turn, which is
\* 113 / 71000 with PI taken as 355 / 113.
MIN_ANGLE == [n |-> 113, d |-> 71000]

Segment(e, size, depth, start_angle, end_angle) ==
    [path |-> e.path, size |-> size, depth |-> depth,
     start_angle |-> start_angle, end_angle |-> end_angle, is_file |-> e.is_file]

\* build_segments_recursive and its loop over entry.children: the segments it
\* pushes, in order.
RECURSIVE build_segments_recursive(_, _, _, _, _, _)
RECURSIVE layout_children(_, _, _, _, _, _)
\* layout_children starting every child at the angle its parent starts at.
RECURSIVE layout_children_overlapping(_, _, _, _, _, _)
layout_children_overlapping(children, depth, current_angle, angle_range, total, max_depth) ==
    IF children = <<>> THEN <<>>
    ELSE LET child == Head(children)
             child_size == total_size(child)
             child_angle == FMul(Frac(child_size, total), angle_range)
             child_end == FAdd(current_angle, child_angle)
         IN  IF child_size = 0 \/ FLess(child_angle, MIN_ANGLE)
             THEN layout_children_overlapping(Tail(children), depth, current_angle,
                                              angle_range, total, max_depth)
             ELSE <<Segment(child, child_size, depth, current_angle, child_end)>>
                  \o (IF ~child.is_file /\ child.children # <<>>
                      THEN build_segments_recursive(child, depth + 1,
                               current_angle, child_end, child_size, max_depth)
                      ELSE <<>>)
                  \o layout_children_overlapping(Tail(children), depth, current_angle,
                                                 angle_range, total, max_depth)
layout_children(children, depth, current_angle, angle_range, total, max_depth) ==
    IF children = <<>> THEN <<>>
    ELSE LET child == Head(children)
             child_size == total_size(child)
             child_angle == FMul(Frac(child_size, total), angle_range)
             child_end == FAdd(current_angle, child_angle)
         IN  IF child_size = 0 \/ FLess(child_angle, MIN_ANGLE)
             THEN layout_children(Tail(children), depth, current_angle,
                                  angle_range, total, max_depth)
             ELSE <<Segment(child, child_size, depth, current_angle, child_end)>>
                  \o (IF ~child.is_file /\ child.children # <<>>
                      THEN build_segments_recursive(child, depth + 1,
                               current_angle, child_end, child_size, max_depth)
                      ELSE <<>>)
                  \o layout_children(Tail(children), depth, child_end,
                                     angle_range, total, max_depth)
build_segments_recursive(entry, depth, start_angle, end_angle, total, max_depth) ==
    IF depth > max_depth THEN <<>>
    ELSE layout_children(entry.children, depth, start_angle,
                         FSub(end_angle, start_angle), total, max_depth)

\* build_segments
build_segments(root, max_depth) ==
    LET total == total_size(root) IN
    IF total = 0 THEN <<>>
    ELSE <<Segment(root, total, 0, ZERO_ANGLE, FULL_CIRCLE)>>
         \o build_segments_recursive(root, 1, ZERO_ANGLE, FULL_CIRCLE, total,
                                     max_depth)

----------------------------------------------------------------------------
(* app.rs AppState: [scan_root, view_root, segments, scanning,             *)
(* items_scanned].  hover_path is written by the pointer-motion handler    *)
(* alone and progress_msg by nothing; neither is carried.                  *)

\* AppState::default
default_state ==
    [scan_root |-> None, view_root |-> <<>>, segments |-> <<>>,
     scanning |-> FALSE, items_scanned |-> 0]

\* `self.scan_root.as_ref().and_then(|r| r.find_by_path(&path))`
resolve(s, path) ==
    IF is_some(s.scan_root) THEN find_by_path(unwrap(s.scan_root), path) ELSE None

\* AppState::get_view_entry
get_view_entry(s) == resolve(s, s.view_root)

\* AppState::rebuild_segments
rebuild_segments(s) ==
    LET entry == get_view_entry(s) IN
    IF is_some(entry)
    THEN [s EXCEPT !.segments = build_segments(unwrap(entry), MAX_DEPTH)]
    ELSE s

\* navigate_to without the `find_by_path(&path).is_some()` guard.
navigate_to_unguarded(s, path) == rebuild_segments([s EXCEPT !.view_root = path])

\* AppState::navigate_to
navigate_to(s, path) ==
    IF is_some(resolve(s, path))
    THEN rebuild_segments([s EXCEPT !.view_root = path])
    ELSE s

\* navigate_up without the `find_by_path(&parent).is_some()` test.
navigate_up_unchecked(s) ==
    LET up == parent(s.view_root) IN
    IF is_some(up) THEN rebuild_segments([s EXCEPT !.view_root = unwrap(up)]) ELSE s

\* AppState::navigate_up
navigate_up(s) ==
    LET up == parent(s.view_root) IN
    IF is_some(up) /\ is_some(resolve(s, unwrap(up)))
    THEN rebuild_segments([s EXCEPT !.view_root = unwrap(up)])
    ELSE s

\* AppState::can_navigate_up
can_navigate_up(s) ==
    IF is_some(s.scan_root)
    THEN s.view_root # unwrap(s.scan_root).path /\ is_some(parent(s.view_root))
    ELSE FALSE

\* AppState::get_breadcrumbs: the paths of the crumbs, root first.
RECURSIVE crumbs_up_from(_, _)
crumbs_up_from(s, current) ==
    IF is_some(s.scan_root) /\ current = unwrap(s.scan_root).path THEN <<current>>
    ELSE IF is_some(parent(current))
         THEN Append(crumbs_up_from(s, unwrap(parent(current))), current)
         ELSE <<current>>
get_breadcrumbs(s) == crumbs_up_from(s, s.view_root)

----------------------------------------------------------------------------
(* ui.rs remove_entry_from_tree: [entry, found], the entry as the call      *)
(* leaves it and the bool it returns.                                      *)

\* `entry.children.retain(|child| &child.path != target)`
retain(children, target) == SelectSeq(children, LAMBDA c : c.path # target)

\* remove_entry_from_tree without `entry.size = ..`: sizes are left stale.
RECURSIVE remove_entry_stale(_, _)
remove_entry_stale(entry, target) ==
    LET kept == retain(entry.children, target) IN
    [entry |-> [entry EXCEPT !.children =
                   [i \in DOMAIN kept |-> remove_entry_stale(kept[i], target).entry]],
     found |-> FALSE]

\* remove_entry_from_tree recalculating the size of directories only.
RECURSIVE remove_entry_keeping_files(_, _)
remove_entry_keeping_files(entry, target) ==
    LET kept == retain(entry.children, target)
        below == [i \in DOMAIN kept |->
                     remove_entry_keeping_files(kept[i], target).entry]
    IN  [entry |-> [entry EXCEPT !.children = below,
                                 !.size = IF entry.is_file THEN @
                                          ELSE SumSeq([i \in DOMAIN below |->
                                                          total_size(below[i])])],
         found |-> FALSE]

RECURSIVE remove_entry_from_tree(_, _)
RECURSIVE remove_from_children(_, _)
\* The `for child in &mut entry.children` loop: [children, found].
remove_from_children(children, target) ==
    IF children = <<>> THEN [children |-> <<>>, found |-> FALSE]
    ELSE LET first == remove_entry_from_tree(Head(children), target) IN
         IF first.found
         THEN [children |-> <<first.entry>> \o Tail(children), found |-> TRUE]
         ELSE LET rest == remove_from_children(Tail(children), target) IN
              [children |-> <<first.entry>> \o rest.children,
               found |-> rest.found]
remove_entry_from_tree(entry, target) ==
    LET loop == remove_from_children(retain(entry.children, target), target)
        kept == [entry EXCEPT !.children = loop.children]
    IN  IF loop.found THEN [entry |-> kept, found |-> TRUE]
        ELSE [entry |-> [kept EXCEPT !.size =
                  SumSeq([i \in DOMAIN kept.children |->
                             total_size(kept.children[i])])],
              found |-> FALSE]

----------------------------------------------------------------------------
(* The filesystems the model starts from *)

\* A disk with a file of size s1 beside a directory holding a file of size s2.
MiniDisk(s1, s2) ==
    FsDir("", << FsFile("a", s1), FsDir("d", << FsFile("c", s2) >>) >>)

\* The same shape with entries that cannot be removed: removing /d removes
\* /d/e and then fails at /d/c.
LockedDisk ==
    FsDir("", <<
        WithRm(FsFile("a", 1), "denied"),
        FsDir("d", << FsFile("e", 1), WithRm(FsFile("c", 2), "error") >>) >>)

\* A home directory two levels below "/", with three entries.
HomeDisk(s1, s2, s3) ==
    FsDir("", <<
        FsDir("home", <<
            FsFile("a", s1),
            FsDir("d", << FsFile("c", s2), FsFile("e", 1) >>),
            FsFile("b", s3) >>) >>)

\* A disk with a protected directory (/usr), a virtual filesystem (/proc)
\* and a symbolic link.
SystemDisk ==
    FsDir("", <<
        FsDir("usr", << FsFile("lib", 1) >>),
        FsDir("proc", << FsFile("k", 1), FsDir("s", << FsFile("t", 1) >>) >>),
        FsLink("l") >>)

\* A disk with entries that cannot be read and entries that cannot be removed.
FaultyDisk ==
    FsDir("", <<
        WithRm(FsFile("a", 2), "denied"),
        WithAccess(FsDir("p", << FsFile("q", 1) >>), "noread"),
        WithAccess(FsFile("m", 1), "nometa"),
        WithAccess(FsFile("g", 1), "direrr"),
        FsDir("d", << FsFile("e", 1), WithRm(FsFile("c", 1), "error") >>) >>)

\* A disk whose root directory lists ItemCountEvery - 4 + fill symbolic links
\* ahead of a directory of three files and a file, so that the item counter
\* passes ItemCountEvery inside /sub (fill < 2) or at an entry of "/" itself.
FillerDisk(fill) ==
    FsDir("",
        [i \in 1..(ItemCountEvery - 4 + fill) |-> FsLink("l" \o ToString(i))]
        \o << FsDir("sub", << FsFile("x", 1), FsFile("y", 1), FsFile("z", 1) >>),
              FsFile("w", 1) >>)

\* The sizes of the two files of a MiniDisk: every order of the two entries,
\* a tie, entries of size zero, and an entry whose share of the circle is
\* below MIN_ANGLE.
DiskSizes == { <<0, 0>>, <<1, 0>>, <<0, 1>>, <<1, 1>>, <<1, 1000>>, <<2, 1>> }

\* The disks the application model starts from.
FileSystems ==
    { MiniDisk(sz[1], sz[2]) : sz \in DiskSizes } \cup { LockedDisk }

\* The disks delete_entry is called on.
DeleteFileSystems == { MiniDisk(1, 2), LockedDisk, SystemDisk }

\* The disks the scanner model starts from.
ScanFileSystems ==
    { HomeDisk(sz[1], sz[2], 1) : sz \in DiskSizes }
    \cup { SystemDisk, FaultyDisk }
    \cup { FillerDisk(fill) : fill \in 0..MaxFill }

\* Every path of the filesystem below `node` (found at `path`), `path` included.
RECURSIVE fs_paths(_, _)
fs_paths(node, path) ==
    {path} \cup UNION { fs_paths(node.children[i], join(path, node.children[i].name))
                        : i \in DOMAIN node.children }

\* The directories a file chooser in SelectFolder mode can return.
fs_dirs(root) == { p \in fs_paths(root, <<>>) : is_dir(root, p) }

----------------------------------------------------------------------------
(* The state after construction (ui.rs build_ui) *)

\* The scanner thread: pc is its position ("idle": no thread yet, "done": it
\* has exited), root, count, items and entry are the locals of
\* scan_recursive and build_entry, and direct is history: the values the
\* counter took at the scan root and at the entries of its directory.
no_thread ==
    [pc |-> "idle", root |-> <<>>, count |-> 0, items |-> <<>>,
     entry |-> new_dir(<<>>), direct |-> {}]
no_op == [op |-> "none", path |-> <<>>, result |-> ""]
Op(op, path, result) == [op |-> op, path |-> path, result |-> result]

InitApp ==
    /\ state = default_state
    /\ dialog = None
    /\ up_btn = FALSE
    /\ crumbs = <<>>
    /\ thread = no_thread
    /\ poller = FALSE
    /\ chan = <<>>
    /\ sent = <<>>
    /\ rcvd = <<>>
    /\ built = None
    /\ last = no_op
    /\ done = [scans |-> 0, deletes |-> 0]

Init ==
    /\ fs \in FileSystems
    /\ InitApp

----------------------------------------------------------------------------
(* sunburst.rs find_segment_at_point.  The point is given in polar form:   *)
(* `dist` is distance / ring_width and `raw` is dy.atan2(dx) in turns, in  *)
(* (-1/2, 1/2]; both are fractions.                                        *)

Min(a, b) == IF a <= b THEN a ELSE b
Floor(q) == q.n \div q.d

\* `if distance < ring_width { 0 } else { floor(distance / ring_width).min(MAX_DEPTH) }`
ring_of(dist) ==
    IF FLess(dist, [n |-> 1, d |-> 1]) THEN 0 ELSE Min(Floor(dist), MAX_DEPTH)

\* The angle as atan2 returns it, negative in the lower half plane.
angle_as_returned(raw) == raw

\* `if angle < 0.0 { angle += 2.0 * PI }`
normalize_angle(raw) ==
    IF FLess(raw, ZERO_ANGLE) THEN FAdd(raw, FULL_CIRCLE) ELSE raw

\* `segments.iter().find(..)`: the first match, as an Option.
RECURSIVE find_first(_, _, _)
find_first(segments, depth, angle) ==
    IF segments = <<>> THEN None
    ELSE LET seg == Head(segments) IN
         IF /\ seg.depth = depth
            /\ FLeq(seg.start_angle, angle)
            /\ FLess(angle, seg.end_angle)
         THEN Some(seg)
         ELSE find_first(Tail(segments), depth, angle)
find_segment_at_point(segments, dist, raw) ==
    find_first(segments, ring_of(dist), normalize_angle(raw))

\* The pointer positions the model clicks at: the middle of every segment on
\* screen, in the polar form above.
Half == [n |-> 1, d |-> 2]
middle_of(seg) ==
    LET mid == FMul(FAdd(seg.start_angle, seg.end_angle), Half) IN
    [dist |-> FAdd([n |-> seg.depth, d |-> 1], Half),
     raw |-> IF FLess(Half, mid) THEN FSub(mid, FULL_CIRCLE) ELSE mid]
Pointers == { middle_of(state.segments[i]) : i \in DOMAIN state.segments }

----------------------------------------------------------------------------
(* The scanner thread (scanner.rs scan_directory, scan_recursive,          *)
(* build_entry).  One step per message sent and per entry of the scan      *)
(* root's directory; the walk below one entry (build_entry_quiet) is one   *)
(* step.                                                                   *)

\* `mpsc::sync_channel(1)`: a send waits while a message is in the buffer.
has_room_for_one(buffer) == Len(buffer) < 1

\* `mpsc::channel()`: the buffer is unbounded, a send never waits for room.
has_room(buffer) == TRUE

\* `let _ = tx.send(..)`: a send to a dropped receiver is discarded.
Send(msgs) ==
    /\ has_room(chan)
    /\ chan' = IF poller THEN chan \o msgs ELSE chan
    /\ sent' = sent \o msgs

exited(t) ==
    [no_thread EXCEPT !.pc = "done", !.root = t.root, !.count = t.count,
                      !.direct = t.direct]

\* scan_recursive, up to the call of build_entry.
ThreadStart ==
    /\ thread.pc = "start"
    /\ LET count == thread.count + 1 IN
       /\ Send(item_count_update(count) \o <<Scanning(thread.root)>>)
       /\ thread' = [thread EXCEPT !.pc = "meta", !.count = count,
                                   !.direct = @ \cup {count}]
    /\ UNCHANGED <<fs, state, dialog, up_btn, crumbs, poller, rcvd, built, done>>
    /\ last' = no_op

\* build_entry up to its loop: fs::metadata and fs::read_dir of the scan root.
ThreadOpen ==
    /\ thread.pc = "meta"
    /\ LET n == fs_lookup(fs, thread.root) IN
       IF ~is_some(n) \/ unwrap(n).access = "nometa" \/ unwrap(n).kind = "symlink"
       THEN /\ Send(<<Error(thread.root)>>)
            /\ thread' = exited(thread)
            /\ UNCHANGED built
       ELSE IF unwrap(n).kind = "file"
       THEN /\ Send(<<Complete(sort_by_size(new_file(thread.root, unwrap(n).size)))>>)
            /\ built' = Some(new_file(thread.root, unwrap(n).size))
            /\ thread' = exited(thread)
       ELSE IF unwrap(n).access = "noread"
       THEN /\ Send(<<Error(thread.root)>>)
            /\ thread' = exited(thread)
            /\ UNCHANGED built
       ELSE /\ thread' = [thread EXCEPT !.pc = "loop",
                                        !.items = unwrap(n).children,
                                        !.entry = new_dir(thread.root)]
            /\ UNCHANGED <<chan, sent, built>>
    /\ UNCHANGED <<fs, state, dialog, up_btn, crumbs, poller, rcvd, done>>
    /\ last' = no_op

\* build_entry_item taking an entry whose metadata cannot be read for what
\* the directory listing says it is.
build_entry_item_unskipped(root, item, dir, entry, count) ==
    LET item_path == join(dir, item.name)
        live == fs_lookup(root, item_path)
    IN  IF ~is_some(live) \/ unwrap(live).kind = "symlink"
        THEN [entry |-> entry, count |-> count + 1]
        ELSE IF unwrap(live).kind = "file"
        THEN [entry |-> [entry EXCEPT !.children =
                            Append(@, new_file(item_path, unwrap(live).size))],
              count |-> count + 1]
        ELSE IF is_virtual_fs(item_path)
        THEN [entry |-> entry, count |-> count + 1]
        ELSE LET sub == build_entry_quiet(unwrap(live), item_path, count + 1) IN
             [entry |-> IF sub.ok
                        THEN [entry EXCEPT !.children = Append(@, sub.entry)]
                        ELSE entry,
              count |-> sub.count]

\* One iteration of build_entry's `for item in read_dir`: [entry, count].
build_entry_item(root, item, dir, entry, count) ==
    LET item_path == join(dir, item.name)
        live == fs_lookup(root, item_path)
    IN  IF ~is_some(live) \/ unwrap(live).access = "nometa"
           \/ unwrap(live).kind = "symlink"
        THEN [entry |-> entry, count |-> count + 1]
        ELSE IF unwrap(live).kind = "file"
        THEN [entry |-> [entry EXCEPT !.children =
                            Append(@, new_file(item_path, unwrap(live).size))],
              count |-> count + 1]
        ELSE IF is_virtual_fs(item_path)
        THEN [entry |-> entry, count |-> count + 1]
        ELSE LET sub == build_entry_quiet(unwrap(live), item_path, count + 1) IN
             [entry |-> IF sub.ok
                        THEN [entry EXCEPT !.children = Append(@, sub.entry)]
                        ELSE entry,
              count |-> sub.count]

ThreadItem ==
    /\ thread.pc = "loop"
    /\ thread.items # <<>>
    /\ LET item == Head(thread.items) IN
       IF item.access = "direrr"
       THEN /\ thread' = [thread EXCEPT !.items = Tail(@)]
            /\ UNCHANGED <<chan, sent>>
       ELSE LET r == build_entry_item(fs, item, thread.root, thread.entry,
                                      thread.count)
            IN  /\ Send(item_count_update(thread.count + 1))
                /\ thread' = [thread EXCEPT !.items = Tail(@),
                                            !.entry = r.entry,
                                            !.count = r.count,
                                            !.direct = @ \cup {thread.count + 1}]
    /\ UNCHANGED <<fs, state, dialog, up_btn, crumbs, poller, rcvd, built, done>>
    /\ last' = no_op

\* build_entry after its loop, and the rest of scan_recursive.
ThreadFinish ==
    /\ thread.pc = "loop"
    /\ thread.items = <<>>
    /\ LET entry == [thread.entry EXCEPT !.size =
                        SumSeq([i \in DOMAIN thread.entry.children |->
                                   total_size(thread.entry.children[i])])]
       IN  /\ built' = Some(entry)
           /\ Send(<<Complete(sort_by_size(entry))>>)
    /\ thread' = exited(thread)
    /\ UNCHANGED <<fs, state, dialog, up_btn, crumbs, poller, rcvd, done>>
    /\ last' = no_op

ThreadStep == ThreadStart \/ ThreadOpen \/ ThreadItem \/ ThreadFinish

----------------------------------------------------------------------------
(* ui.rs: the handlers of the main loop.  The delete dialog is modal: while *)
(* it is open the window takes no input, and timeouts still run.           *)

\* `up_btn.set_sensitive(state.can_navigate_up())` and update_breadcrumbs
RefreshChrome(s) ==
    /\ up_btn' = can_navigate_up(s)
    /\ crumbs' = get_breadcrumbs(s)

\* The file chooser's response handler, on Accept.
ChooseDirectory(path) ==
    /\ dialog = None
    /\ path \in fs_dirs(fs)
    /\ state' = [state EXCEPT !.view_root = path]
    /\ last' = no_op
    /\ UNCHANGED <<fs, dialog, up_btn, crumbs, thread, poller, chan, sent, rcvd, built, done>>

\* The scan button without `if state.scanning { return; }` and without
\* `scan_btn.set_sensitive(false)`.
ScanClickedWhileScanning ==
    /\ dialog = None
    /\ done.scans < MaxScans
    /\ done' = [done EXCEPT !.scans = @ + 1]
    /\ state' = [state EXCEPT !.scanning = TRUE, !.items_scanned = 0]
    /\ thread' = [no_thread EXCEPT !.pc = "start", !.root = state.view_root]
    /\ poller' = TRUE
    /\ chan' = <<>>
    /\ sent' = <<>>
    /\ rcvd' = <<>>
    /\ last' = no_op
    /\ UNCHANGED <<fs, dialog, up_btn, crumbs, built>>

\* scan_btn.connect_clicked
ScanClicked ==
    /\ dialog = None
    /\ IF state.scanning
       THEN /\ last' = no_op
            /\ UNCHANGED <<state, thread, poller, chan, sent, rcvd, done>>
       ELSE /\ done.scans < MaxScans
            /\ done' = [done EXCEPT !.scans = @ + 1]
            /\ state' = [state EXCEPT !.scanning = TRUE, !.items_scanned = 0]
            /\ thread' = [no_thread EXCEPT !.pc = "start", !.root = state.view_root]
            /\ poller' = TRUE
            /\ chan' = <<>>
            /\ sent' = <<>>
            /\ rcvd' = <<>>
            /\ last' = no_op
    /\ UNCHANGED <<fs, dialog, up_btn, crumbs, built>>

\* The body of the poll timeout's `while let Ok(progress) = rx.try_recv()`:
\* [state, taken, ended], the state after the loop, the messages it received
\* and the type of the terminal message that ended the poller ("" if none).
RECURSIVE poll(_, _)
poll(s, queue) ==
    IF queue = <<>> THEN [state |-> s, taken |-> <<>>, ended |-> ""]
    ELSE LET progress == Head(queue) IN
         IF progress.type = "Complete"
         THEN LET entry == unwrap(progress.entry)
                  shown == rebuild_segments([s EXCEPT !.view_root = entry.path,
                                                      !.scan_root = Some(entry)])
              IN  [state |-> [shown EXCEPT !.scanning = FALSE],
                   taken |-> <<progress>>, ended |-> "Complete"]
         ELSE IF progress.type = "Error"
         THEN [state |-> [s EXCEPT !.scanning = FALSE],
               taken |-> <<progress>>, ended |-> "Error"]
         ELSE LET rest == poll(IF progress.type = "ItemCount"
                               THEN [s EXCEPT !.items_scanned = progress.n]
                               ELSE s,
                               Tail(queue))
              IN  [rest EXCEPT !.taken = <<progress>> \o @]

\* One run of the timeout_add_local closure.
PollTick ==
    /\ poller
    /\ LET r == poll(state, chan) IN
       /\ state' = r.state
       /\ rcvd' = rcvd \o r.taken
       /\ last' = no_op
       /\ IF r.ended = ""
          THEN /\ chan' = SubSeq(chan, Len(r.taken) + 1, Len(chan))
               /\ UNCHANGED <<poller, up_btn, crumbs>>
          ELSE /\ chan' = <<>>
               /\ poller' = FALSE
               /\ IF r.ended = "Complete"
                  THEN RefreshChrome(r.state)
                  ELSE UNCHANGED <<up_btn, crumbs>>
    /\ UNCHANGED <<fs, dialog, thread, sent, built, done>>

\* click_ctrl.connect_released (left click) at pointer position `pt`.
LeftClick(pt) ==
    /\ dialog = None
    /\ LET found == find_segment_at_point(state.segments, pt.dist, pt.raw) IN
       /\ is_some(found)
       /\ LET seg == unwrap(found)
              s == IF seg.depth = 0 THEN navigate_up(state)
                   ELSE IF ~seg.is_file THEN navigate_to(state, seg.path)
                   ELSE state
          IN  /\ state' = s
              /\ RefreshChrome(s)
              /\ last' = IF seg.depth = 0
                         THEN Op("navigate_up", state.view_root,
                                 IF s.view_root # state.view_root THEN "moved" ELSE "stayed")
                         ELSE IF ~seg.is_file
                         THEN Op("navigate_to", seg.path,
                                 IF is_some(resolve(state, seg.path))
                                 THEN "resolved" ELSE "unresolved")
                         ELSE no_op
    /\ UNCHANGED <<fs, dialog, thread, poller, chan, sent, rcvd, built, done>>

\* up_btn.connect_clicked
UpClicked ==
    /\ dialog = None
    /\ up_btn
    /\ LET s == navigate_up(state) IN
       /\ state' = s
       /\ RefreshChrome(s)
       /\ last' = Op("navigate_up", state.view_root,
                     IF s.view_root # state.view_root THEN "moved" ELSE "stayed")
    /\ UNCHANGED <<fs, dialog, thread, poller, chan, sent, rcvd, built, done>>

\* The click handler of the i-th breadcrumb button (update_breadcrumbs).
BreadcrumbClicked(i) ==
    /\ dialog = None
    /\ i \in DOMAIN crumbs
    /\ LET s == navigate_to(state, crumbs[i]) IN
       /\ state' = s
       /\ RefreshChrome(s)
       /\ last' = Op("navigate_to", crumbs[i],
                     IF is_some(resolve(state, crumbs[i]))
                     THEN "resolved" ELSE "unresolved")
    /\ UNCHANGED <<fs, dialog, thread, poller, chan, sent, rcvd, built, done>>

\* right_click_ctrl.connect_released at pointer position `pt`: opens the
\* delete dialog (show_delete_dialog).
RightClick(pt) ==
    /\ dialog = None
    /\ LET found == find_segment_at_point(state.segments, pt.dist, pt.raw) IN
       /\ is_some(found)
       /\ ~(unwrap(found).depth = 0 \/ is_protected_path(unwrap(found).path))
       /\ dialog' = Some(unwrap(found).path)
       /\ last' = no_op
    /\ UNCHANGED <<fs, state, up_btn, crumbs, thread, poller, chan, sent, rcvd, built, done>>

\* The `DeleteResult::Success` arm of the dialog's response handler.
prune(s, path) ==
    rebuild_segments(
        IF is_some(s.scan_root)
        THEN [s EXCEPT !.scan_root =
                 Some(remove_entry_from_tree(unwrap(s.scan_root), path).entry)]
        ELSE s)

\* after_delete updating the tree whatever delete_entry returned.
after_delete_always(s, path, result) == prune(s, path)

\* The state the response handler leaves for each DeleteResult.
after_delete(s, path, result) ==
    IF result = "Success" THEN prune(s, path) ELSE s

\* show_delete_dialog's response handler, on Accept ("BURN IT").
DeleteConfirmed ==
    /\ is_some(dialog)
    /\ done.deletes < MaxDeletes
    /\ done' = [done EXCEPT !.deletes = @ + 1]
    /\ LET path == unwrap(dialog)
           r == delete_entry(fs, path)
       IN  /\ fs' = r.fs
           /\ state' = after_delete(state, path, r.result)
           /\ last' = Op("delete", path, r.result)
    /\ dialog' = None
    /\ UNCHANGED <<up_btn, crumbs, thread, poller, chan, sent, rcvd, built>>

\* show_delete_dialog's response handler, on Cancel ("Spare").
DeleteCancelled ==
    /\ is_some(dialog)
    /\ dialog' = None
    /\ last' = no_op
    /\ UNCHANGED <<fs, state, up_btn, crumbs, thread, poller, chan, sent, rcvd, built, done>>

Next ==
    \/ \E path \in fs_paths(fs, <<>>) : ChooseDirectory(path)
    \/ ScanClicked
    \/ ThreadStart
    \/ ThreadOpen
    \/ ThreadItem
    \/ ThreadFinish
    \/ PollTick
    \/ \E pt \in Pointers : LeftClick(pt)
    \/ \E pt \in Pointers : RightClick(pt)
    \/ UpClicked
    \/ \E i \in DOMAIN crumbs : BreadcrumbClicked(i)
    \/ DeleteConfirmed
    \/ DeleteCancelled

Spec == Init /\ [][Next]_vars

----------------------------------------------------------------------------
(* The scanner alone, on larger disks: the chooser, the scan button, the   *)
(* scanner thread and the poll timeout.  A spawned thread is scheduled     *)
(* until it returns, and the calls it makes on the filesystem return.      *)

InitScan ==
    /\ fs \in ScanFileSystems
    /\ InitApp

NextScan ==
    \/ \E path \in fs_dirs(fs) : ChooseDirectory(path)
    \/ ScanClicked
    \/ ThreadStart
    \/ ThreadOpen
    \/ ThreadItem
    \/ ThreadFinish
    \/ PollTick

\* The thread is between its spawn and its return: one of its steps is
\* enabled, and every step changes `thread`.
running == thread.pc \in {"start", "meta", "loop"}

\* Weak fairness of the thread's steps: WF_vars(ThreadStep), with
\* ENABLED <<ThreadStep>>_vars written as the state predicate it equals.
ThreadFair == []<>(~running) \/ []<><<ThreadStep>>_vars

ScanSpec == InitScan /\ [][NextScan]_vars /\ ThreadFair

----------------------------------------------------------------------------
(* The whole application with the thread and the poll timeout scheduled.   *)

\* Weak fairness of the poll timeout's runs that receive something: the
\* main loop runs the closure every 50 ms while it is installed.
PollFair == []<>(~poller \/ chan = <<>>) \/ []<><<PollTick>>_vars

FairSpec == Init /\ [][Next]_vars /\ ThreadFair /\ PollFair

----------------------------------------------------------------------------
(* scanner.rs scan_directory with a consumer that may poll at any cadence, *)
(* not at all, or drop the receiver while the thread runs.                 *)

\* The receiver is gone while the scan it belongs to has not ended.
dropped == state.scanning /\ ~poller

\* The timeout closure that owns `rx` is destroyed with the main loop while
\* the thread runs: the buffered messages are freed with the receiver.
ReceiverDropped ==
    /\ poller
    /\ poller' = FALSE
    /\ chan' = <<>>
    /\ last' = no_op
    /\ UNCHANGED <<fs, state, dialog, up_btn, crumbs, thread, sent, rcvd, built, done>>

NextChannel ==
    \/ ~dropped /\ \E path \in fs_dirs(fs) : ChooseDirectory(path)
    \/ ~dropped /\ ScanClicked
    \/ PollTick
    \/ ReceiverDropped
    \/ ThreadStart
    \/ ThreadOpen
    \/ ThreadItem
    \/ ThreadFinish

\* Only the thread is scheduled fairly: the poll may never run.
ChannelSpec == InitScan /\ [][NextChannel]_vars /\ ThreadFair

----------------------------------------------------------------------------
(* actions.rs delete_entry as a public function: called on any path, with  *)
(* or without a scan tree in the application state.                        *)

\* The paths delete_entry is called with.
DeletePaths == fs_paths(fs, <<>>) \cup PROTECTED_PATHS \cup { <<"gone">> }

\* `delete_entry(&path)`, outside the delete dialog.
DeleteEntryCall(path) ==
    /\ done.deletes < MaxDeletes
    /\ done' = [done EXCEPT !.deletes = @ + 1]
    /\ LET r == delete_entry(fs, path) IN
       /\ fs' = r.fs
       /\ last' = Op("delete_entry", path, r.result)
    /\ UNCHANGED <<state, dialog, up_btn, crumbs, thread, poller, chan, sent, rcvd, built>>

InitDelete ==
    /\ fs \in DeleteFileSystems
    /\ InitApp

NextDelete ==
    \/ \E path \in DeletePaths : DeleteEntryCall(path)
    \/ ScanClicked
    \/ ThreadStart
    \/ ThreadOpen
    \/ ThreadItem
    \/ ThreadFinish
    \/ PollTick

DeleteSpec == InitDelete /\ [][NextDelete]_vars

----------------------------------------------------------------------------
(* sunburst.rs build_segments and find_segment_at_point as public          *)
(* functions: called on any tree, sorted or not, with any maximum depth.   *)

\* A directory entry with the given children.
DirOf(path, children) ==
    [new_dir(path) EXCEPT
        !.children = children,
        !.size = SumSeq([i \in DOMAIN children |-> total_size(children[i])])]

\* Directories nested k deep, each holding the next and a file.
RECURSIVE ChainTree(_, _)
ChainTree(path, k) ==
    IF k = 0 THEN new_file(path, 1)
    ELSE DirOf(path, << ChainTree(join(path, "n"), k - 1),
                        new_file(join(path, "f"), 1) >>)

\* The sizes of the files of the trees below: 1 beside 1000 is below
\* MIN_ANGLE.
LayoutSizes == {0, 1, 1000}

\* The trees build_segments is called on: three files in any order of size,
\* a directory of two files beside a file, and a chain deeper than any
\* maximum depth.
LayoutTrees ==
    { DirOf(<<>>, << new_file(<<"f1">>, s1), new_file(<<"f2">>, s2),
                     new_file(<<"f3">>, s3) >>)
        : s1 \in LayoutSizes, s2 \in LayoutSizes, s3 \in LayoutSizes }
    \cup
    { DirOf(<<>>, << DirOf(<<"d">>, << new_file(<<"d", "x">>, s1),
                                       new_file(<<"d", "y">>, s2) >>),
                     new_file(<<"f">>, s3) >>)
        : s1 \in LayoutSizes, s2 \in LayoutSizes, s3 \in LayoutSizes }
    \cup { ChainTree(<<>>, MaxLayoutDepth + 1) }

\* The directories of a tree.
RECURSIVE dirs_of(_)
dirs_of(e) ==
    IF e.is_file THEN {}
    ELSE {e} \cup UNION { dirs_of(e.children[i]) : i \in DOMAIN e.children }

\* `build_segments(entry, max_depth)` on a directory of the tree.
Layout(entry, max_depth) ==
    /\ state' = [state EXCEPT !.view_root = entry.path,
                              !.segments = build_segments(entry, max_depth)]
    /\ last' = Op("build_segments", entry.path, ToString(max_depth))
    /\ UNCHANGED <<fs, dialog, up_btn, crumbs, thread, poller, chan, sent, rcvd, built, done>>

\* The points inside a segment the hit test is tried at: at a quarter, a
\* half and three quarters of its angles, on its inner edge and in the
\* middle of its ring.
inside_points(seg) ==
    { [dist |-> FAdd([n |-> seg.depth, d |-> 1], [n |-> r, d |-> 2]),
       raw |-> LET at == FAdd(seg.start_angle,
                              FMul(FSub(seg.end_angle, seg.start_angle),
                                   [n |-> q, d |-> 4]))
               IN  IF FLess(Half, at) THEN FSub(at, FULL_CIRCLE) ELSE at]
        : r \in {0, 1}, q \in {1, 2, 3} }
Probes == UNION { inside_points(state.segments[i]) : i \in DOMAIN state.segments }

\* `find_segment_at_point(&segments, x, y, ..)`
HitTest(pt) ==
    /\ LET found == find_segment_at_point(state.segments, pt.dist, pt.raw) IN
       last' = IF is_some(found)
               THEN Op("find_segment_at_point", unwrap(found).path, "Some")
               ELSE Op("find_segment_at_point", <<>>, "None")
    /\ UNCHANGED <<fs, state, dialog, up_btn, crumbs, thread, poller, chan, sent, rcvd, built, done>>

InitLayout ==
    /\ fs = MiniDisk(1, 1)
    /\ \E tree \in LayoutTrees :
          state = [default_state EXCEPT !.scan_root = Some(tree)]
    /\ dialog = None
    /\ up_btn = FALSE
    /\ crumbs = <<>>
    /\ thread = no_thread
    /\ poller = FALSE
    /\ chan = <<>>
    /\ sent = <<>>
    /\ rcvd = <<>>
    /\ built = None
    /\ last = no_op
    /\ done = [scans |-> 0, deletes |-> 0]

NextLayout ==
    \/ \E entry \in dirs_of(unwrap(state.scan_root)) :
          \E max_depth \in 0..MaxLayoutDepth : Layout(entry, max_depth)
    \/ \E pt \in Probes : HitTest(pt)

LayoutSpec == InitLayout /\ [][NextLayout]_vars

----------------------------------------------------------------------------
(* Properties *)

Last(seq) == seq[Len(seq)]
IsPrefix(p, q) == Len(p) <= Len(q) /\ SubSeq(q, 1, Len(p)) = p

\* The trees the scanner has delivered in the current scan.
completed == { unwrap(sent[i].entry) : i \in { j \in DOMAIN sent : sent[j].type = "Complete" } }

\* Every node of a tree, the tree's root included.
RECURSIVE nodes_of(_)
nodes_of(e) == {e} \cup UNION { nodes_of(e.children[i]) : i \in DOMAIN e.children }

\* The scan trees a state holds: those delivered and the one of the
\* application state.
trees == completed \cup (IF is_some(state.scan_root) THEN {unwrap(state.scan_root)} ELSE {})

deleted_ok == last.op = "delete" /\ last.result = "Success"

\* C1: in the tree delivered by Complete and in the scan tree after any
\* sequence of successful deletions, the size of every directory, at every
\* level, is the sum of the total sizes of its children.
AggregationInvariant ==
    \A t \in trees : \A d \in nodes_of(t) :
        ~d.is_file =>
            d.size = SumSeq([i \in DOMAIN d.children |-> total_size(d.children[i])])

\* A second deletion has just succeeded and the tree still has a directory
\* with something in it.
AggregationWitness ==
    /\ done.deletes = 2
    /\ deleted_ok
    /\ is_some(state.scan_root)
    /\ unwrap(state.scan_root).children # <<>>

\* C2: whenever a scan tree exists, view_root resolves by find_by_path to a
\* node of scan_root.
ViewRootResolves ==
    is_some(state.scan_root) =>
        \E n \in nodes_of(unwrap(state.scan_root)) : n.path = state.view_root

\* The path cannot be read as the root of a scan.
unreadable_root(path) ==
    LET n == fs_lookup(fs, path) IN
    ~is_some(n) \/ unwrap(n).access \in {"nometa", "noread"}

\* The messages of the current scan: at most one is terminal and it is the
\* last one sent, it is an Error exactly when the root cannot be read, the
\* thread sends nothing once it has exited, and what the poll received is,
\* in order, a prefix of what was sent with the rest still in the channel.
ScanProtocolSafe ==
    /\ \A i \in DOMAIN sent : is_terminal(sent[i]) => i = Len(sent)
    /\ thread.pc = "done" <=> (sent # <<>> /\ is_terminal(Last(sent)))
    /\ thread.pc = "done" =>
          (Last(sent).type = "Error" <=> unreadable_root(thread.root))
    /\ rcvd \o chan = sent
    /\ ~poller /\ thread.pc = "done" => rcvd = sent

\* C3: every started scan eventually emits exactly one terminal event,
\* Complete on success and Error when the root cannot be read, no message of
\* the scan is emitted or delivered after it, and the messages are received
\* in the order they were emitted.
ScanProtocol ==
    /\ []ScanProtocolSafe
    /\ (thread.pc = "start") ~> (thread.pc = "done")

\* A scan has completed, and a later scan has ended with an Error that the
\* poll has received.
ScanProtocolWitness ==
    /\ done.scans = 2
    /\ is_some(state.scan_root)
    /\ thread.pc = "done"
    /\ Last(sent).type = "Error"
    /\ rcvd = sent
    /\ ~state.scanning

\* The multiples of ItemCountEvery the item counter has reached.
hundreds == { n \in 1..thread.count : n % ItemCountEvery = 0 }
reported(n) == \E i \in DOMAIN sent : sent[i] = ItemCount(n)

\* C4 as stated: for every multiple of 100 the item counter reaches, at any
\* depth of the walk, an ItemCount with that value is sent.
ItemCountEveryHundred == \A n \in hundreds : reported(n)

\* C4, amended: an ItemCount is sent for exactly the multiples of 100 the
\* counter reaches at the scan root or at an entry of the scan root's own
\* directory, once each and in increasing order; the multiples reached
\* deeper in the walk are not reported.
ItemCountAtTopLevel ==
    /\ \A n \in hundreds : reported(n) <=> n \in thread.direct
    /\ \A i \in DOMAIN sent :
          sent[i].type = "ItemCount" =>
              /\ sent[i].n \in hundreds
              /\ \A j \in DOMAIN sent :
                    (j < i /\ sent[j].type = "ItemCount") => sent[j].n < sent[i].n

\* A scan has ended that reported its hundredth item.
ItemCountWitness ==
    /\ thread.pc = "done"
    /\ reported(ItemCountEvery)
    /\ Last(sent).type = "Complete"

\* The position of the child with the given path.
index_of(children, path) == CHOOSE i \in DOMAIN children : children[i].path = path

\* `sorted` holds the children of `found`, each with its subtree ordered in
\* turn, and children of equal total size are in the order of `found`.
RECURSIVE keeps_discovery_order(_, _)
keeps_discovery_order(found, sorted) ==
    /\ sorted.path = found.path
    /\ sorted.size = found.size
    /\ sorted.is_file = found.is_file
    /\ Len(sorted.children) = Len(found.children)
    /\ \A i \in DOMAIN found.children :
          \E j \in DOMAIN sorted.children :
              sorted.children[j].path = found.children[i].path
    /\ \A i, j \in DOMAIN sorted.children :
          (i < j /\ total_size(sorted.children[i]) = total_size(sorted.children[j]))
              => index_of(found.children, sorted.children[i].path)
                     < index_of(found.children, sorted.children[j].path)
    /\ \A i \in DOMAIN sorted.children :
          keeps_discovery_order(
              found.children[index_of(found.children, sorted.children[i].path)],
              sorted.children[i])

descending(e) ==
    \A d \in nodes_of(e) : \A i \in 1..(Len(d.children) - 1) :
        total_size(d.children[i]) >= total_size(d.children[i + 1])

\* C5: in the tree carried by Complete the children of every directory are
\* in descending order of total size, children of equal total size are in
\* the order the directory was read, and sort_by_size leaves the tree as it
\* is.
SortOnCompletion ==
    \A t \in completed :
        /\ descending(t)
        /\ keeps_discovery_order(unwrap(built), t)
        /\ sort_by_size(t) = t

\* A delivered tree in which sorting moved a child and kept a tie in place.
SortWitness ==
    \E t \in completed :
        /\ t # unwrap(built)
        /\ \E d \in nodes_of(t) : \E i \in 1..(Len(d.children) - 1) :
              total_size(d.children[i]) = total_size(d.children[i + 1])

\* C6: after any sequence of successful deletions applied to a completed
\* scan tree, the children of every directory are still in descending order
\* of total size.
DescendingAfterDeletions ==
    is_some(state.scan_root) => descending(unwrap(state.scan_root))

\* A deletion has just succeeded below a directory that still has two
\* children.
DescendingWitness ==
    /\ deleted_ok
    /\ is_some(state.scan_root)
    /\ \E d \in nodes_of(unwrap(state.scan_root)) : Len(d.children) >= 2

\* C7: when delete_entry returns anything but Success, the scan tree, the
\* view root and the segment list are as they were before the attempt.
FailedDeleteKeepsModel ==
    [][(last'.op = "delete" /\ last'.result # "Success") =>
          /\ state'.scan_root = state.scan_root
          /\ state'.view_root = state.view_root
          /\ state'.segments = state.segments]_vars

\* A deletion of an entry on screen has just been refused.
FailedDeleteWitness ==
    /\ last.op = "delete"
    /\ last.result \in {"PermissionDenied", "Error"}
    /\ is_some(resolve(state, last.path))
    /\ state.segments # <<>>

\* C8: for every path of the protected set, delete_entry returns
\* ProtectedPath and removes nothing, whether or not the path exists, and
\* the tree is unchanged.
ProtectedRefused ==
    [][(last'.op = "delete_entry" /\ last'.path \in PROTECTED_PATHS) =>
          /\ last'.result = "ProtectedPath"
          /\ fs' = fs
          /\ state' = state]_vars

\* delete_entry has refused a protected path that is not on the disk, with
\* a scan tree in the state.
ProtectedWitness ==
    /\ last.op = "delete_entry"
    /\ last.path \in PROTECTED_PATHS
    /\ ~is_some(fs_lookup(fs, last.path))
    /\ last.result = "ProtectedPath"
    /\ is_some(state.scan_root)

\* `after` is `before` without the node at `target` and its subtree: the
\* other nodes keep their path, kind and order, a node above the target has
\* lost `removed` from its size and every other node has the size it had.
RECURSIVE removed_exactly(_, _, _, _)
removed_exactly(before, after, target, removed) ==
    LET kept == SelectSeq(before.children, LAMBDA c : c.path # target) IN
    /\ after.path = before.path
    /\ after.is_file = before.is_file
    /\ after.size = IF before.path # target /\ IsPrefix(before.path, target)
                    THEN before.size - removed
                    ELSE before.size
    /\ Len(after.children) = Len(kept)
    /\ \A i \in DOMAIN kept :
          removed_exactly(kept[i], after.children[i], target, removed)

\* C9: removing a path that resolves to a node of the tree other than its
\* root deletes that node and its subtree and nothing else, takes the
\* node's total size off the size of each of its ancestors and leaves the
\* size of every other node as it was.
TargetedRemovalExact ==
    [][(/\ last'.op = "delete"
        /\ last'.result = "Success"
        /\ is_some(state.scan_root)
        /\ unwrap(state.scan_root).path # last'.path
        /\ is_some(find_by_path(unwrap(state.scan_root), last'.path)))
       => removed_exactly(
              unwrap(state.scan_root), unwrap(state'.scan_root), last'.path,
              total_size(unwrap(find_by_path(unwrap(state.scan_root), last'.path))))
      ]_vars

\* C10: navigate_to with a path that does not resolve in the scan tree, or
\* with no scan tree, leaves every field of the state as it was;
\* navigate_to with a path that resolves sets view_root to the path and
\* segments to the layout rooted at its node, and nothing else.
NavigateToGuarded ==
    [][last'.op = "navigate_to" =>
          LET hits == IF is_some(state.scan_root)
                      THEN { n \in nodes_of(unwrap(state.scan_root)) :
                                 n.path = last'.path }
                      ELSE {}
          IN  IF hits = {} THEN state' = state
              ELSE /\ state'.view_root = last'.path
                   /\ \E n \in hits : state'.segments = build_segments(n, MAX_DEPTH)
                   /\ state' = [state EXCEPT !.view_root = state'.view_root,
                                             !.segments = state'.segments]
      ]_vars

\* navigate_to has just been called with a path that is no longer in the
\* scan tree.
NavigateToWitness ==
    /\ last.op = "navigate_to"
    /\ is_some(state.scan_root)
    /\ ~is_some(find_by_path(unwrap(state.scan_root), last.path))

\* The path is the path of a node of the scan tree.
in_tree(path) ==
    /\ is_some(state.scan_root)
    /\ \E n \in nodes_of(unwrap(state.scan_root)) : n.path = path

\* C11: with view_root at the scan root's path navigate_up changes nothing
\* and can_navigate_up is false, and a navigate_to or navigate_up from a
\* view_root in the tree leaves view_root in the tree, at the scan root's
\* path or nested under it.
NoNavigationAboveRoot ==
    [][is_some(state.scan_root) =>
          LET root == unwrap(state.scan_root).path IN
          /\ (last'.op = "navigate_up" /\ state.view_root = root) =>
                 (state' = state /\ ~can_navigate_up(state))
          /\ (last'.op \in {"navigate_up", "navigate_to"} /\ in_tree(state.view_root)) =>
                 /\ IsPrefix(root, state'.view_root)
                 /\ \E n \in nodes_of(unwrap(state.scan_root)) :
                        n.path = state'.view_root
      ]_vars

\* navigate_up has just been called at the root of a scan of a directory
\* that has a parent on the disk.
NoNavigationAboveRootWitness ==
    /\ last.op = "navigate_up"
    /\ last.result = "stayed"
    /\ is_some(state.scan_root)
    /\ last.path = unwrap(state.scan_root).path
    /\ is_some(parent(last.path))

\* C12: can_navigate_up is true only when view_root differs from the scan
\* root's path and its parent resolves in the scan tree, so that a
\* navigate_up that follows moves view_root to that parent.
CanNavigateUpAgrees ==
    can_navigate_up(state) =>
        /\ state.view_root # unwrap(state.scan_root).path
        /\ is_some(parent(state.view_root))
        /\ in_tree(unwrap(parent(state.view_root)))
        /\ navigate_up(state).view_root = unwrap(parent(state.view_root))

\* C13: with a scan tree, the breadcrumbs start at the scan root's path, end
\* at view_root, each is the parent of the next, and none is above the scan
\* root.
BreadcrumbsFromScanRoot ==
    is_some(state.scan_root) =>
        LET root == unwrap(state.scan_root).path
            b == get_breadcrumbs(state)
        IN  /\ b # <<>>
            /\ b[1] = root
            /\ b[Len(b)] = state.view_root
            /\ \A i \in 1..(Len(b) - 1) : parent(b[i + 1]) = Some(b[i])
            /\ \A i \in DOMAIN b : IsPrefix(root, b[i])

RECURSIVE FSum(_)
FSum(spans) == IF spans = <<>> THEN ZERO_ANGLE ELSE FAdd(Head(spans), FSum(Tail(spans)))
span(seg) == FSub(seg.end_angle, seg.start_angle)

\* The positions, in a segment list, of the segments of the children of the
\* segment at position p.
child_segments(segs, p) ==
    { i \in DOMAIN segs : /\ segs[i].depth = segs[p].depth + 1
                          /\ parent(segs[i].path) = Some(segs[p].path) }

\* A child that the minimum-angle threshold drops from a parent of the given
\* span.
below_min_angle(child, total, parent_span) ==
    /\ total_size(child) > 0
    /\ FLess(FMul(Frac(total_size(child), total), parent_span), MIN_ANGLE)

\* The node of the tree a segment was made from.
node_of(seg) == unwrap(find_by_path(unwrap(state.scan_root), seg.path))

\* C14: in the segments of one build_segments call, two segments of the same
\* depth do not overlap, every segment lies within the segment of its
\* parent, and the spans of the children of one parent sum to at most the
\* parent's span, to all of it only if no child was dropped by the
\* minimum-angle threshold.
LayoutPartition ==
    LET segs == state.segments IN
    /\ \A i, j \in DOMAIN segs :
          (i # j /\ segs[i].depth = segs[j].depth) =>
              \/ FLeq(segs[i].end_angle, segs[j].start_angle)
              \/ FLeq(segs[j].end_angle, segs[i].start_angle)
    /\ \A i \in DOMAIN segs :
          /\ FLess(segs[i].start_angle, segs[i].end_angle)
          /\ segs[i].depth > 0 =>
                \E p \in DOMAIN segs :
                    /\ i \in child_segments(segs, p)
                    /\ FLeq(segs[p].start_angle, segs[i].start_angle)
                    /\ FLeq(segs[i].end_angle, segs[p].end_angle)
    /\ \A p \in DOMAIN segs :
          LET kids == child_segments(segs, p)
              order == CHOOSE f \in [1..Cardinality(kids) -> kids] :
                           \A a, b \in DOMAIN f : a # b => f[a] # f[b]
              total == FSum([k \in DOMAIN order |-> span(segs[order[k]])])
              node == node_of(segs[p])
          IN  /\ FLeq(total, span(segs[p]))
              /\ total = span(segs[p]) =>
                    \A c \in DOMAIN node.children :
                        ~below_min_angle(node.children[c], total_size(node),
                                         span(segs[p]))

\* A layout in which a child was dropped for its angle and another
\* directory's two children both have segments.
LayoutPartitionWitness ==
    /\ last.op = "build_segments"
    /\ \E p \in DOMAIN state.segments :
          \E c \in DOMAIN node_of(state.segments[p]).children :
              below_min_angle(node_of(state.segments[p]).children[c],
                              total_size(node_of(state.segments[p])),
                              span(state.segments[p]))
    /\ \E p \in DOMAIN state.segments :
          /\ state.segments[p].depth = 1
          /\ Cardinality(child_segments(state.segments, p)) = 2

\* The segment holds the point, as find_segment_at_point tests it.
holds_point(seg, pt) ==
    /\ seg.depth = ring_of(pt.dist)
    /\ FLeq(seg.start_angle, normalize_angle(pt.raw))
    /\ FLess(normalize_angle(pt.raw), seg.end_angle)

at_most_one_match ==
    \A pt \in Probes :
        Cardinality({ j \in DOMAIN state.segments :
                          holds_point(state.segments[j], pt) }) <= 1

share(child, node, parent_span) ==
    FMul(Frac(total_size(child), total_size(node)), parent_span)

\* The segments of one layout follow the proportional layout of the tree:
\* every child of a laid-out directory is either dropped with all below it
\* or starts where the shares of the children before it end.
proportional(segs, tree) ==
    \A p \in DOMAIN segs :
        LET node == unwrap(find_by_path(tree, segs[p].path)) IN
        (~node.is_file /\ segs[p].depth < MAX_DEPTH) =>
            \A c \in DOMAIN node.children :
                LET child == node.children[c]
                    before == FSum([k \in 1..(c - 1) |->
                                      share(node.children[k], node, span(segs[p]))])
                    start == FAdd(segs[p].start_angle, before)
                IN  IF total_size(child) = 0
                       \/ below_min_angle(child, total_size(node), span(segs[p]))
                    THEN \A i \in DOMAIN segs : ~IsPrefix(child.path, segs[i].path)
                    ELSE \E i \in DOMAIN segs :
                            /\ segs[i].path = child.path
                            /\ segs[i].depth = segs[p].depth + 1
                            /\ segs[i].start_angle = start
                            /\ segs[i].end_angle
                                  = FAdd(start, share(child, node, span(segs[p])))

\* C15: in the layout of every directory of the scan tree the application
\* holds, each surviving child's segment starts at the parent's start plus
\* the proportional spans of all children before it, dropped ones included,
\* and a dropped child has no segment, nor has anything below it.
PruningKeepsSiblings ==
    is_some(state.scan_root) =>
        \A n \in dirs_of(unwrap(state.scan_root)) :
            proportional(build_segments(n, MAX_DEPTH), unwrap(state.scan_root))

\* The application shows a layout in which one child of the view entry has
\* a segment and another was dropped for its angle.
PruningWitness ==
    /\ is_some(state.scan_root)
    /\ is_some(get_view_entry(state))
    /\ LET node == unwrap(get_view_entry(state)) IN
       /\ state.segments = build_segments(node, MAX_DEPTH)
       /\ \E i \in DOMAIN state.segments : state.segments[i].depth = 1
       /\ \E c \in DOMAIN node.children :
             below_min_angle(node.children[c], total_size(node), FULL_CIRCLE)

\* The nodes of a delivered tree other than its root, each with the entry
\* of the filesystem at its path.
below_root(t) == { n \in nodes_of(t) : n.path # t.path }
on_disk(n) == fs_lookup(fs, n.path)
errors_only_for_root ==
    \A i \in DOMAIN sent :
        sent[i].type = "Error" => unreadable_root(sent[i].path)

VirtualFsExcluded ==
    \A t \in completed : \A n \in below_root(t) :
        /\ ~is_virtual_fs(n.path)
        /\ is_some(on_disk(n))
        /\ unwrap(on_disk(n)).kind # "symlink"

\* C19: no send of the scan thread waits for the consumer; the thread,
\* once started, reaches its terminal send and returns, whether the
\* consumer polls rarely, never, or has dropped the receiver; and what the
\* poll has received is, in order, what was sent, with the rest still in
\* the channel unless the receiver was dropped.
ScannerNeverStalled ==
    /\ [](running => has_room(chan))
    /\ [](/\ IsPrefix(rcvd, sent)
          /\ ~dropped => sent = rcvd \o chan)
    /\ (thread.pc = "start")
           ~> (thread.pc = "done" /\ sent # <<>> /\ is_terminal(Last(sent)))

\* The thread has made its terminal send and returned after the receiver
\* was dropped without a poll.
ScannerNeverStalledWitness ==
    /\ dropped
    /\ thread.pc = "done"
    /\ rcvd = <<>>
    /\ Len(sent) >= 2
    /\ is_terminal(Last(sent))

\* C20: whenever delete_entry returns Success in the dialog's response
\* handler, the path resolves to a node of the scan tree when
\* remove_entry_from_tree runs, and no longer resolves after it.
PruneFindsTarget ==
    [][(last'.op = "delete" /\ last'.result = "Success") =>
           /\ in_tree(last'.path)
           /\ ~is_some(resolve(state', last'.path))
      ]_vars

\* C21: after every step that changes view_root or the scan tree, the
\* stored segments are build_segments of the node view_root resolves to,
\* with MAX_DEPTH; and after a successful deletion no stored segment has
\* the deleted path or a path beneath it.
SegmentCacheCoherent ==
    [][/\ (state'.view_root # state.view_root \/ state'.scan_root # state.scan_root) =>
              (is_some(get_view_entry(state')) =>
                  state'.segments
                      = build_segments(unwrap(get_view_entry(state')), MAX_DEPTH))
       /\ (last'.op = "delete" /\ last'.result = "Success") =>
              \A i \in DOMAIN state'.segments :
                  ~IsPrefix(last'.path, state'.segments[i].path)
      ]_vars

\* The terminal message of the current scan has been consumed by the poll.
terminal_consumed == rcvd # <<>> /\ is_terminal(Last(rcvd))

\* C22: a scan thread and its poller start only while no scan is in flight
\* (the scanning flag is clear, no thread runs, no poller is installed);
\* the scanning flag is set exactly from the start of a scan until its
\* terminal message is consumed; and it is eventually cleared.
OneScanInFlight ==
    /\ [][done'.scans # done.scans =>
              (~state.scanning /\ ~running /\ ~poller)]_vars
    /\ [](/\ state.scanning <=> (done.scans > 0 /\ ~terminal_consumed)
          /\ state.scanning <=> poller
          /\ running => state.scanning)
    /\ state.scanning ~> ~state.scanning

\* The second scan has ended and its terminal message has cleared the flag.
OneScanInFlightWitness ==
    /\ done.scans = 2
    /\ ~state.scanning
    /\ terminal_consumed
    /\ thread.pc = "done"

\* C23: the path offered to the delete dialog is a node of the scan tree
\* strictly below view_root, and after a confirmed deletion that succeeds
\* view_root still resolves.
DeletionSparesView ==
    /\ [](is_some(dialog) =>
              /\ in_tree(unwrap(dialog))
              /\ IsPrefix(state.view_root, unwrap(dialog))
              /\ unwrap(dialog) # state.view_root)
    /\ [][(last'.op = "delete" /\ last'.result = "Success") =>
              is_some(get_view_entry(state'))]_vars

====
